---- MODULE Spec2Model ----
(***************************************************************************)
(* Model of the notebook execution core of server.py: the session registry *)
(* (NotebookServer.sessions), the per-connection message loop              *)
(* (websocket_endpoint / handle_message), the execution engine             *)
(* (NotebookServer.execute, run in the default thread pool), the           *)
(* completion provider (get_completions) and the feature flag              *)
(* (global_settings).                                                      *)
(*                                                                         *)
(* One TLA+ step is either one run of the event loop between two awaits,   *)
(* or one step of a worker thread of the pool.  Worker threads and the     *)
(* event loop interleave freely: in CPython a thread switch can happen     *)
(* between any two bytecodes, so `x = x + 1` is a load and a store.        *)
(***************************************************************************)
EXTENDS Integers, Sequences, FiniteSets, TLC

\* ---------------------------------------------------------------- bounds
\* Number of requests the clients make, over all connections: messages,
\* closes and settings updates.
MaxMsgs == 2

\* The same, where the clients only run the counter snippets.
MaxCounterMsgs == 3

\* The same, in the fair specification.
MaxMsgsLive == 2

\* The same, where the clients assign x and read it back.
MaxNamesMsgs == 2

\* The same, where the clients draw plots.
MaxPlotMsgs == 2

\* The same, where the clients run code that raises.
MaxFaultMsgs == 2

\* The same, where the clients print.
MaxPrintMsgs == 2

\* The same, where the clients print and plot in one snippet.
MaxOrderMsgs == 2

\* The same, where the clients run code with and without a trailing value.
MaxDisplayMsgs == 2

\* ------------------------------------------------------------- constants
\* Threads of the default executor of loop.run_in_executor(None, ...):
\* min(32, os.cpu_count() + 4), at least 5.
max_workers == 5

Conns == {"c1", "c2"}
SessionIds == {"s1", "s2"}
Htmls == {"<b>"}

NoSession == "no_session"
NoNs == "no_ns"
\* sys.stdout is the interpreter's original stream, the StringIO of the
\* execution a connection is awaiting, or a StringIO whose execution has
\* returned (nothing reads it any more).
Orig == "orig"
Dead == "dead"

\* ----------------------------------------------------------- user code
\* The snippets the clients submit, as the statement list ast.parse gives.
Codes == {"x = 0", "x = x + 1", "print('a'); 1/0", "while True: pass",
          "plt.plot([1]); x", "plt.title('$'); 1", "def (",
          "x = 5", "x", "x + 1", "x = 5; 1/0", "plt.plot([1])",
          "raise SystemExit", "plt.title('$')", "print('a')",
          "print('a'); plt.plot([1])", "x = 5; x", ""}

Body(code) ==
    CASE code = "x = 0"             -> << "assign0" >>
      [] code = "x = x + 1"         -> << "incr" >>
      [] code = "print('a'); 1/0"   -> << "print", "div0" >>
      [] code = "while True: pass"  -> << "loop" >>
      [] code = "plt.plot([1]); x"  -> << "plot", "name_x" >>
      [] code = "plt.title('$'); 1" -> << "title_bad", "one" >>
      [] code = "x = 5"             -> << "assign5" >>
      [] code = "x"                 -> << "name_x" >>
      [] code = "x + 1"             -> << "x_plus_1" >>
      [] code = "x = 5; 1/0"        -> << "assign5", "div0" >>
      [] code = "plt.plot([1])"     -> << "plot" >>
      [] code = "raise SystemExit"  -> << "raise_exit" >>
      [] code = "plt.title('$')"    -> << "title_bad" >>
      [] code = "print('a')"        -> << "print" >>
      [] code = "print('a'); plt.plot([1])" -> << "print", "plot" >>
      [] code = "x = 5; x"          -> << "assign5", "name_x" >>
      [] OTHER                      -> << >>

\* ast.parse raises SyntaxError
ParseOk(code) == code # "def ("

\* isinstance(stmt, ast.Expr)
IsExpr(stmt) ==
    stmt \in {"print", "div0", "plot", "title_bad", "name_x", "one", "x_plus_1"}

VARIABLES
    sessions,         \* self.sessions: session id -> [locals, websocket]
    locals,           \* the namespace dicts, by the connection that created them
    global_settings,  \* [enable_autocomplete |-> BOOLEAN]
    sys_stdout,       \* the process-wide sys.stdout
    figure,           \* plt.gcf(): [axes: who drew on it, bad: savefig raises]
    pc,               \* websocket_endpoint of each connection
    session_id,       \* the path parameter of each connection
    chan,             \* transport state of each websocket
    inbox,            \* messages received from the client, not yet read
    outbox,           \* messages delivered to the client
    task,             \* the execute() call each connection awaits
    buf,              \* the StringIO of that call
    sent,             \* messages sent by the clients so far
    limit,            \* messages the clients may send
    snippets,         \* the code the clients submit
    provider_calls,   \* history: calls of jedi through get_completions
    counter_ops       \* history: loads and stores of x, per namespace

vars == << sessions, locals, global_settings, sys_stdout, figure, pc,
           session_id, chan, inbox, outbox, task, buf, sent, limit,
           snippets, provider_calls, counter_ops >>

NoTask == [pc |-> "none", cell_id |-> 0, code |-> "", ip |-> 0, ns |-> NoNs,
           old |-> Orig, tmp |-> 0, out |-> << >>, registered |-> FALSE,
           exc |-> FALSE]

\* {'plt': plt, 'pd': pd}
SeedLocals == ("plt" :> 0) @@ ("pd" :> 0)

NoEntry == [locals |-> NoNs, websocket |-> "none"]

SessionExpired == << [k |-> "expired"] >>

InitWith(n, cs) ==
    /\ sessions = [s \in {} |-> NoEntry]
    /\ locals = [c \in Conns |-> SeedLocals]
    /\ global_settings = [enable_autocomplete |-> TRUE]
    /\ sys_stdout = Orig
    /\ figure = [axes |-> {}, bad |-> FALSE]
    /\ pc = [c \in Conns |-> "new"]
    /\ session_id = [c \in Conns |-> NoSession]
    /\ chan = [c \in Conns |-> "connecting"]
    /\ inbox = [c \in Conns |-> << >>]
    /\ outbox = [c \in Conns |-> << >>]
    /\ task = [c \in Conns |-> NoTask]
    /\ buf = [c \in Conns |-> << >>]
    /\ sent = 0
    /\ limit = n
    /\ snippets = cs
    /\ provider_calls = 0
    /\ counter_ops = [c \in Conns |-> << >>]

Init ==
    InitWith(MaxMsgs, {"print('a'); 1/0", "plt.plot([1]); x",
                       "plt.title('$'); 1", "def ("})

\* ------------------------------------------------------------ registry
\* a membership test that finds no id
never_in(sid) == FALSE

\* self.sessions.get(session_id)
Registered(sid) == sid \in DOMAIN sessions

\* sys.stdout.write(tok): the text lands in the StringIO sys.stdout
\* currently is, whichever execution owns it.
write_stdout(b, tok) ==
    IF sys_stdout \in Conns THEN [b EXCEPT ![sys_stdout] = Append(@, tok)] ELSE b

\* NotebookServer.disconnect: del self.sessions[session_id]
disconnect(sid) == [s \in DOMAIN sessions \ {sid} |-> sessions[s]]

\* the print() of NotebookServer.disconnect
disconnect_log(sid) ==
    IF Registered(sid) THEN write_stdout(buf, [k |-> "log"]) ELSE buf

\* ---------------------------------------------------------- event loop
\* run_code with self.execute called in the handler itself
called_inline(c) == TRUE

\* loop.run_in_executor(None, self.execute, ...): the call runs on a thread
\* of the pool, not on the thread of the event loop
on_loop_thread(c) == FALSE

\* The event loop runs a handler only between the steps of what runs on
\* its own thread.
EventLoopFree ==
    \A c \in Conns : on_loop_thread(c) => task[c].pc \in {"none", "returned"}

\* ------------------------------------------------------------- clients
ClientMessages(n) ==
    [type : {"run_code"}, cell_id : {n}, code : snippets]
    \cup [type : {"get_completions"}, request_id : {n}]
    \cup [type : {"apply_design"}, session_id : SessionIds, html : Htmls]
    \cup [type : {"bad"}]

\* A client sends its next message once the server has read the last one.
Sending(c, msgs) ==
    /\ chan[c] = "open"
    /\ sent < limit
    /\ inbox[c] = << >>
    /\ \E m \in msgs :
           inbox' = [inbox EXCEPT ![c] = Append(@, m)]
    /\ sent' = sent + 1
    /\ UNCHANGED << sessions, locals, global_settings, sys_stdout, figure, pc,
                    session_id, chan, outbox, task, buf, limit, snippets,
                    provider_calls, counter_ops >>

client_send(c) == Sending(c, ClientMessages(sent + 1))

\* clients that only run code and ask for completions
client_send_notebook(c) ==
    Sending(c, {m \in ClientMessages(sent + 1) :
                   m.type \in {"run_code", "get_completions"}})

\* clients that only run code
client_send_code(c) ==
    Sending(c, {m \in ClientMessages(sent + 1) : m.type = "run_code"})

\* The client closes its end: the transport is closed and the ASGI
\* disconnect event is queued behind the messages already received.
client_close(c) ==
    /\ chan[c] = "open"
    /\ sent < limit
    /\ sent' = sent + 1
    /\ chan' = [chan EXCEPT ![c] = "closed"]
    /\ inbox' = [inbox EXCEPT ![c] = Append(@, [type |-> "websocket.disconnect"])]
    /\ UNCHANGED << sessions, locals, global_settings, sys_stdout, figure, pc,
                    session_id, outbox, task, buf, limit, snippets,
                    provider_calls, counter_ops >>

\* POST /api/teacher/settings
update_settings(user_role, value) ==
    /\ EventLoopFree
    /\ global_settings' =
           IF user_role = "teacher"
           THEN [global_settings EXCEPT !.enable_autocomplete = value]
           ELSE global_settings
    /\ sent < limit
    /\ sent' = sent + 1
    /\ UNCHANGED << sessions, locals, sys_stdout, figure, pc, session_id, chan,
                    inbox, outbox, task, buf, limit, snippets, provider_calls,
                    counter_ops >>

\* ------------------------------------------------- websocket_endpoint
\* Connections and session ids are interchangeable: the connections are
\* named in the order they arrive and the first one asks for "s1".
Arrives(c, sid) ==
    /\ c = "c2" => pc["c1"] # "new"
    /\ c = "c1" => sid = "s1"

\* NotebookServer.connect, up to its await: websocket.accept()
connect_accept(c, sid) ==
    /\ EventLoopFree
    /\ pc[c] = "new"
    /\ Arrives(c, sid)
    /\ pc' = [pc EXCEPT ![c] = "accepted"]
    /\ chan' = [chan EXCEPT ![c] = "open"]
    /\ session_id' = [session_id EXCEPT ![c] = sid]
    /\ UNCHANGED << sessions, locals, global_settings, sys_stdout, figure,
                    inbox, outbox, task, buf, sent, limit, snippets, provider_calls,
                    counter_ops >>

\* NotebookServer.connect, after the await
connect(c) ==
    /\ EventLoopFree
    /\ pc[c] = "accepted"
    /\ sessions' =
           IF Registered(session_id[c]) THEN sessions
           ELSE [s \in DOMAIN sessions \cup {session_id[c]} |->
                    IF s = session_id[c]
                    THEN [locals |-> c, websocket |-> c]
                    ELSE sessions[s]]
    /\ buf' = write_stdout(buf, [k |-> "log"])
    /\ pc' = [pc EXCEPT ![c] = "recv"]
    /\ UNCHANGED << locals, global_settings, sys_stdout, figure, session_id,
                    chan, inbox, outbox, task, sent, limit, snippets, provider_calls,
                    counter_ops >>

\* a read loop that takes the next message while the handler of the last
\* one is still waiting for its execution
Receives_early(c, type) ==
    /\ EventLoopFree
    /\ pc[c] \in {"recv", "exec"}
    /\ inbox[c] # << >>
    /\ Head(inbox[c]).type = type
    /\ inbox' = [inbox EXCEPT ![c] = Tail(@)]

\* message = await websocket.receive_text()
Receives(c, type) ==
    /\ EventLoopFree
    /\ pc[c] = "recv"
    /\ inbox[c] # << >>
    /\ Head(inbox[c]).type = type
    /\ inbox' = [inbox EXCEPT ![c] = Tail(@)]

\* receive_text raises WebSocketDisconnect: server.disconnect(session_id)
recv_disconnect(c) ==
    /\ Receives(c, "websocket.disconnect")
    /\ sessions' = disconnect(session_id[c])
    /\ buf' = disconnect_log(session_id[c])
    /\ pc' = [pc EXCEPT ![c] = "closed"]
    /\ UNCHANGED << locals, global_settings, sys_stdout, figure, session_id,
                    chan, outbox, task, sent, limit, snippets, provider_calls,
                    counter_ops >>

\* json.loads(message) raises: the exception is no WebSocketDisconnect,
\* it leaves websocket_endpoint and the server closes the transport.
recv_bad(c) ==
    /\ Receives(c, "bad")
    /\ pc' = [pc EXCEPT ![c] = "closed"]
    /\ chan' = [chan EXCEPT ![c] = "closed"]
    /\ UNCHANGED << sessions, locals, global_settings, sys_stdout, figure,
                    session_id, outbox, task, buf, sent, limit, snippets,
                    provider_calls, counter_ops >>

\* ------------------------------------------------------ handle_message
\* await ws.send_json(...): on an open transport the message is delivered.
\* On a transport the peer has closed the data is lost in the socket, or
\* the send raises WebSocketDisconnect or another exception, depending on
\* where the close is in the server stack.
send_json(ws) ==
    IF chan[ws] = "open" THEN {"sent"}
    ELSE {"lost", "WebSocketDisconnect", "RuntimeError"}

\* The rest of websocket_endpoint's iteration once handle_message of
\* connection c has sent msg on websocket ws with outcome o: back to
\* receive_text, or out through `except WebSocketDisconnect`, or out with
\* the exception.
Sends(c, ws, msg, o) ==
    /\ o \in send_json(ws)
    /\ outbox' = IF o = "sent" THEN [outbox EXCEPT ![ws] = Append(@, msg)]
                 ELSE outbox
    /\ CASE o \in {"sent", "lost"} ->
              /\ pc' = [pc EXCEPT ![c] = "recv"]
              /\ UNCHANGED << sessions, buf, chan >>
         [] o = "WebSocketDisconnect" ->
              /\ pc' = [pc EXCEPT ![c] = "closed"]
              /\ sessions' = disconnect(session_id[c])
              /\ buf' = disconnect_log(session_id[c])
              /\ chan' = [chan EXCEPT ![c] = "closed"]
         [] OTHER ->
              /\ pc' = [pc EXCEPT ![c] = "closed"]
              /\ chan' = [chan EXCEPT ![c] = "closed"]
              /\ UNCHANGED << sessions, buf >>

\* msg_type == 'run_code': loop.run_in_executor(None, self.execute, ...)
\* queues the call on the pool and the handler awaits its future.
recv_run_code(c) ==
    /\ Receives(c, "run_code")
    /\ task' = [task EXCEPT ![c] =
                   [NoTask EXCEPT !.pc = "queued",
                                  !.code = Head(inbox[c]).code,
                                  !.cell_id = Head(inbox[c]).cell_id,
                                  !.registered = Registered(session_id[c])]]
    /\ pc' = [pc EXCEPT ![c] = "exec"]
    /\ UNCHANGED << sessions, locals, global_settings, sys_stdout, figure,
                    session_id, chan, outbox, buf, sent, limit, snippets,
                    provider_calls, counter_ops >>

\* jedi.Interpreter(code, [session_locals]).complete(...) at an empty
\* prefix: the names bound in the namespace
complete(session_locals) == DOMAIN session_locals

\* NotebookServer.get_completions; ok = FALSE: jedi raised
get_completions(sid, ok) ==
    IF ~Registered(sid) THEN {}
    ELSE IF ok THEN complete(locals[sessions[sid].locals])
    ELSE {}

\* the completions of a handler that does not look at the flag
completions_unchecked(sid, ok) == get_completions(sid, ok)

\* the branch on global_settings["enable_autocomplete"]
completions_for(sid, ok) ==
    IF ~global_settings.enable_autocomplete THEN {}
    ELSE get_completions(sid, ok)

\* whether that branch calls NotebookServer.get_completions
calls_provider == global_settings.enable_autocomplete

\* msg_type == 'get_completions'
recv_get_completions(c) ==
    /\ Receives(c, "get_completions")
    /\ \E ok \in BOOLEAN, o \in send_json(c) :
         /\ ok \/ (calls_provider /\ Registered(session_id[c]))
         /\ Sends(c, c,
                  [type |-> "completions",
                   request_id |-> Head(inbox[c]).request_id,
                   completions |->
                       completions_for(session_id[c], ok)],
                  o)
    /\ provider_calls' = IF calls_provider THEN provider_calls + 1
                         ELSE provider_calls
    /\ UNCHANGED << locals, global_settings, sys_stdout, figure, session_id,
                    task, sent, limit, snippets, counter_ops >>

\* self.sessions.get(notebook_session_id, {}).get('websocket')
target_ws(sid) == IF Registered(sid) THEN sessions[sid].websocket ELSE "none"

\* msg_type == 'apply_design'
recv_apply_design(c) ==
    /\ Receives(c, "apply_design")
    /\ LET ws == target_ws(Head(inbox[c]).session_id) IN
         IF ws # "none"
         THEN \E o \in send_json(ws) :
                 Sends(c, ws, [type |-> "design_applied",
                               html |-> Head(inbox[c]).html], o)
         ELSE UNCHANGED << sessions, buf, chan, outbox, pc >>
    /\ UNCHANGED << locals, global_settings, sys_stdout, figure, session_id,
                    task, sent, limit, snippets, provider_calls, counter_ops >>

\* ------------------------------------------------ NotebookServer.execute
\* self.sessions.get(session_id, <a fresh environment>)
session_env_default(sid) ==
    IF Registered(sid) THEN sessions[sid]
    ELSE [locals |-> CHOOSE c \in Conns : session_id[c] = sid,
          websocket |-> "none"]

\* self.sessions.get(session_id): the entry, or None
session_env(sid) == IF Registered(sid) THEN sessions[sid] ELSE NoEntry

\* the worker threads of the pool that are running a call
Busy == {c \in Conns : task[c].pc \notin {"none", "queued", "returned"}}

\* A free worker takes the call: session_env = self.sessions.get(session_id),
\* the early return, session_locals = session_env['locals']
execute(c) ==
    /\ task[c].pc = "queued"
    /\ Cardinality(Busy) < max_workers
    /\ task' = [task EXCEPT ![c] =
                   IF session_env(session_id[c]) = NoEntry
                   THEN [@ EXCEPT !.pc = "returned", !.out = SessionExpired]
                   ELSE [@ EXCEPT !.pc = "enter",
                                  !.ns = session_env(session_id[c]).locals]]
    /\ UNCHANGED << sessions, locals, global_settings, sys_stdout, figure, pc,
                    session_id, chan, inbox, outbox, buf, sent, limit, snippets,
                    provider_calls, counter_ops >>

\* buf = io.StringIO(); redirect_stdout(buf).__enter__(); ast.parse(code)
execute_enter(c) ==
    /\ task[c].pc = "enter"
    /\ buf' = [buf EXCEPT ![c] = << >>]
    /\ sys_stdout' = c
    /\ task' = [task EXCEPT ![c].old = sys_stdout,
                            ![c].ip = 1,
                            ![c].pc = IF ~ParseOk(task[c].code) THEN "except"
                                      ELSE IF Body(task[c].code) = << >> THEN "fig"
                                      ELSE "stmt"]
    /\ UNCHANGED << sessions, locals, global_settings, figure, pc, session_id,
                    chan, inbox, outbox, sent, limit, snippets, provider_calls,
                    counter_ops >>

\* where the thread goes after statement ip has completed
Advance(t) ==
    IF t.ip = Len(Body(t.code)) THEN [t EXCEPT !.pc = "fig"]
    ELSE [t EXCEPT !.pc = "stmt", !.ip = t.ip + 1]

Raise(t) == [t EXCEPT !.pc = "except"]

\* an exception that is no Exception (SystemExit, KeyboardInterrupt) passes
\* `except Exception` and leaves the with block
RaiseBase(t) == [t EXCEPT !.pc = "exit", !.exc = TRUE]

\* an engine that displays nothing
Displayed_never(t) == FALSE

\* The trailing statement is evaluated and its value written to buf when it
\* is an ast.Expr; every other statement is executed.
Displayed(t) == t.ip = Len(Body(t.code)) /\ IsExpr(Body(t.code)[t.ip])

\* buf.write(escape(str(result))) when result is not None
Display(c, tok) ==
    IF Displayed(task[c]) THEN [buf EXCEPT ![c] = Append(@, tok)] ELSE buf

\* a store into a copy of the namespace: the dict of the registry stays
setitem_copy(ns, name, v) == ns

\* STORE_NAME: session_locals[name] = v, in the dict the registry holds
setitem(ns, name, v) == (name :> v) @@ ns

\* one bytecode-level step of exec(...) / of the eval(...) of the trailing
\* expression: a whole statement, except that x = x + 1 is the load of x
\* and, in a second step, the store
execute_stmt(c) ==
    LET t == task[c]
        st == Body(t.code)[t.ip]
        ns == locals[t.ns]
    IN
    /\ t.pc \in {"stmt", "store"}
    /\ st # "loop"
    /\ CASE t.pc = "store" ->
              /\ locals' = [locals EXCEPT ![t.ns] = ("x" :> t.tmp + 1) @@ @]
              /\ counter_ops' = [counter_ops EXCEPT ![t.ns] = Append(@, "store")]
              /\ task' = [task EXCEPT ![c] = [Advance(t) EXCEPT !.tmp = 0]]
              /\ UNCHANGED << buf, figure >>
         [] st = "assign0" ->
              /\ locals' = [locals EXCEPT ![t.ns] = ("x" :> 0) @@ @]
              /\ counter_ops' = [counter_ops EXCEPT ![t.ns] = Append(@, "set")]
              /\ task' = [task EXCEPT ![c] = Advance(t)]
              /\ UNCHANGED << buf, figure >>
         [] st = "assign5" ->
              /\ locals' = [locals EXCEPT ![t.ns] = setitem(@, "x", 5)]
              /\ counter_ops' = [counter_ops EXCEPT ![t.ns] = Append(@, "set5")]
              /\ task' = [task EXCEPT ![c] = Advance(t)]
              /\ UNCHANGED << buf, figure >>
         [] st = "incr" ->
              /\ IF "x" \in DOMAIN ns
                 THEN /\ task' = [task EXCEPT ![c] = [t EXCEPT !.pc = "store",
                                                               !.tmp = ns["x"]]]
                      /\ counter_ops' =
                             [counter_ops EXCEPT ![t.ns] = Append(@, "load")]
                 ELSE /\ task' = [task EXCEPT ![c] = Raise(t)]
                      /\ UNCHANGED counter_ops
              /\ UNCHANGED << locals, buf, figure >>
         [] st = "print" ->
              /\ buf' = write_stdout(buf, [k |-> "out", by |-> c])
              /\ task' = [task EXCEPT ![c] = Advance(t)]
              /\ UNCHANGED << locals, figure, counter_ops >>
         [] st = "div0" ->
              /\ task' = [task EXCEPT ![c] = Raise(t)]
              /\ UNCHANGED << locals, buf, figure, counter_ops >>
         [] st = "raise_exit" ->
              /\ task' = [task EXCEPT ![c] = RaiseBase(t)]
              /\ UNCHANGED << locals, buf, figure, counter_ops >>
         [] st \in {"plot", "title_bad"} ->
              /\ figure' = [axes |-> figure.axes \cup {c},
                            bad |-> figure.bad \/ st = "title_bad"]
              /\ buf' = Display(c, [k |-> "repr"])
              /\ task' = [task EXCEPT ![c] = Advance(t)]
              /\ UNCHANGED << locals, counter_ops >>
         [] st = "name_x" ->
              /\ IF "x" \in DOMAIN ns
                 THEN /\ buf' = Display(c, [k |-> "val", v |-> ns["x"]])
                      /\ task' = [task EXCEPT ![c] = Advance(t)]
                 ELSE /\ task' = [task EXCEPT ![c] = Raise(t)]
                      /\ UNCHANGED buf
              /\ UNCHANGED << locals, figure, counter_ops >>
         [] st = "x_plus_1" ->
              /\ IF "x" \in DOMAIN ns
                 THEN /\ buf' = Display(c, [k |-> "val", v |-> ns["x"] + 1])
                      /\ task' = [task EXCEPT ![c] = Advance(t)]
                 ELSE /\ task' = [task EXCEPT ![c] = Raise(t)]
                      /\ UNCHANGED buf
              /\ UNCHANGED << locals, figure, counter_ops >>
         [] st = "one" ->
              /\ buf' = Display(c, [k |-> "val", v |-> 1])
              /\ task' = [task EXCEPT ![c] = Advance(t)]
              /\ UNCHANGED << locals, figure, counter_ops >>
    /\ UNCHANGED << sessions, global_settings, sys_stdout, pc, session_id,
                    chan, inbox, outbox, sent, limit, snippets, provider_calls >>

\* fig = plt.gcf(); if fig.axes: savefig, plt.close(fig), buf.write(<img>)
execute_fig(c) ==
    /\ task[c].pc = "fig"
    /\ IF figure.axes = {}
       THEN /\ task' = [task EXCEPT ![c].pc = "exit"]
            /\ UNCHANGED << figure, buf >>
       ELSE IF figure.bad
       THEN /\ task' = [task EXCEPT ![c] = Raise(@)]
            /\ UNCHANGED << figure, buf >>
       ELSE /\ buf' = [buf EXCEPT ![c] = Append(@, [k |-> "img", axes |-> figure.axes])]
            /\ figure' = [axes |-> {}, bad |-> FALSE]
            /\ task' = [task EXCEPT ![c].pc = "exit"]
    /\ UNCHANGED << sessions, locals, global_settings, sys_stdout, pc,
                    session_id, chan, inbox, outbox, sent, limit, snippets,
                    provider_calls, counter_ops >>

\* a handler that also puts the namespace back to what connect seeded
execute_except_rollback(c) ==
    /\ task[c].pc = "except"
    /\ buf' = [buf EXCEPT ![c] = << >>]
    /\ locals' = [locals EXCEPT ![task[c].ns] = SeedLocals]
    /\ task' = [task EXCEPT ![c].pc = "except_write", ![c].tmp = 0]
    /\ UNCHANGED << sessions, global_settings, sys_stdout, figure, pc,
                    session_id, chan, inbox, outbox, sent, limit, snippets,
                    provider_calls, counter_ops >>

\* except Exception: buf.truncate(0); buf.seek(0)
execute_except(c) ==
    /\ task[c].pc = "except"
    /\ buf' = [buf EXCEPT ![c] = << >>]
    /\ task' = [task EXCEPT ![c].pc = "except_write", ![c].tmp = 0]
    /\ UNCHANGED << sessions, locals, global_settings, sys_stdout, figure, pc,
                    session_id, chan, inbox, outbox, sent, limit, snippets,
                    provider_calls, counter_ops >>

\* tb = traceback.format_exc(); buf.write(<div class="error">...)
execute_except_write(c) ==
    /\ task[c].pc = "except_write"
    /\ buf' = [buf EXCEPT ![c] = Append(@, [k |-> "err"])]
    /\ task' = [task EXCEPT ![c].pc = "exit"]
    /\ UNCHANGED << sessions, locals, global_settings, sys_stdout, figure, pc,
                    session_id, chan, inbox, outbox, sent, limit, snippets,
                    provider_calls, counter_ops >>

\* redirect_stdout.__exit__: sys.stdout = the stream saved on entry
execute_exit(c) ==
    /\ task[c].pc = "exit"
    /\ sys_stdout' = task[c].old
    /\ task' = [task EXCEPT ![c].pc = "getvalue", ![c].old = Orig]
    /\ UNCHANGED << sessions, locals, global_settings, figure, pc, session_id,
                    chan, inbox, outbox, buf, sent, limit, snippets, provider_calls,
                    counter_ops >>

\* return buf.getvalue(), or the exception leaves execute and the pool
\* sets it on the future.  The StringIO is garbage from here on: whatever
\* still refers to it (sys.stdout, a stream saved by another thread) writes
\* text nobody reads.
execute_return(c) ==
    /\ task[c].pc = "getvalue"
    /\ task' = [d \in Conns |->
                   IF d = c
                   THEN [task[c] EXCEPT !.pc = "returned",
                                        !.out = IF task[c].exc THEN << >>
                                                ELSE buf[c],
                                        !.ip = 0, !.ns = NoNs]
                   ELSE IF task[d].old = c THEN [task[d] EXCEPT !.old = Dead]
                   ELSE task[d]]
    /\ sys_stdout' = IF sys_stdout = c THEN Dead ELSE sys_stdout
    /\ buf' = [buf EXCEPT ![c] = << >>]
    /\ UNCHANGED << sessions, locals, global_settings, figure, pc, session_id,
                    chan, inbox, outbox, sent, limit, snippets, provider_calls,
                    counter_ops >>

\* handle_message resumes from `await loop.run_in_executor(...)` and sends
\* the output message; when the future holds an exception the await raises
\* it, it is no WebSocketDisconnect, it leaves websocket_endpoint and the
\* server closes the transport.
handle_output(c) ==
    /\ EventLoopFree
    /\ pc[c] = "exec"
    /\ task[c].pc = "returned"
    /\ IF task[c].exc
       THEN /\ pc' = [pc EXCEPT ![c] = "closed"]
            /\ chan' = [chan EXCEPT ![c] = "closed"]
            /\ UNCHANGED << sessions, buf, outbox >>
       ELSE \E o \in send_json(c) :
               Sends(c, c, [type |-> "output", cell_id |-> task[c].cell_id,
                            output |-> task[c].out], o)
    /\ task' = [task EXCEPT ![c] = NoTask]
    /\ UNCHANGED << locals, global_settings, sys_stdout, figure, session_id,
                    inbox, sent, limit, snippets, provider_calls, counter_ops >>

\* ------------------------------------------------------- specification
Next ==
    \/ \E c \in Conns : client_send(c)
    \/ \E c \in Conns : client_close(c)
    \/ \E r \in {"teacher", "student"}, v \in BOOLEAN : update_settings(r, v)
    \/ \E c \in Conns, s \in SessionIds : connect_accept(c, s)
    \/ \E c \in Conns : connect(c)
    \/ \E c \in Conns : recv_disconnect(c)
    \/ \E c \in Conns : recv_bad(c)
    \/ \E c \in Conns : recv_run_code(c)
    \/ \E c \in Conns : recv_get_completions(c)
    \/ \E c \in Conns : recv_apply_design(c)
    \/ \E c \in Conns : execute(c)
    \/ \E c \in Conns : execute_enter(c)
    \/ \E c \in Conns : execute_stmt(c)
    \/ \E c \in Conns : execute_fig(c)
    \/ \E c \in Conns : execute_except(c)
    \/ \E c \in Conns : execute_except_write(c)
    \/ \E c \in Conns : execute_exit(c)
    \/ \E c \in Conns : execute_return(c)
    \/ \E c \in Conns : handle_output(c)

Spec == Init /\ [][Next]_vars

\* what the server does for connection c: the steps of its endpoint on the
\* event loop and of the execution it awaits in the pool.  No two of them
\* are enabled together: pc[c] and the head of inbox[c] select the handler,
\* task[c].pc the step of the thread, and the handler waits for the thread.
Server(c) ==
    \/ connect(c)
    \/ recv_disconnect(c)
    \/ recv_bad(c)
    \/ recv_run_code(c)
    \/ recv_get_completions(c)
    \/ recv_apply_design(c)
    \/ execute(c)
    \/ execute_enter(c)
    \/ execute_stmt(c)
    \/ execute_fig(c)
    \/ execute_except(c)
    \/ execute_except_write(c)
    \/ execute_exit(c)
    \/ execute_return(c)
    \/ handle_output(c)

\* The event loop runs every handler that is ready and the interpreter
\* schedules every thread that can take a step; the clients are free.
Fairness == \A c \in Conns : WF_vars(Server(c))

\* The clients run a snippet that never returns and one that does, and
\* ask for completions.
InitLive == InitWith(MaxMsgsLive, {"while True: pass", "plt.title('$')"})

NextLive ==
    \/ \E c \in Conns : client_send_notebook(c)
    \/ \E c \in Conns : client_close(c)
    \/ \E c \in Conns, s \in SessionIds : connect_accept(c, s)
    \/ \E c \in Conns : connect(c)
    \/ \E c \in Conns : recv_disconnect(c)
    \/ \E c \in Conns : recv_run_code(c)
    \/ \E c \in Conns : recv_get_completions(c)
    \/ \E c \in Conns : execute(c)
    \/ \E c \in Conns : execute_enter(c)
    \/ \E c \in Conns : execute_stmt(c)
    \/ \E c \in Conns : execute_fig(c)
    \/ \E c \in Conns : execute_except(c)
    \/ \E c \in Conns : execute_except_write(c)
    \/ \E c \in Conns : execute_exit(c)
    \/ \E c \in Conns : execute_return(c)
    \/ \E c \in Conns : handle_output(c)

SpecLive == InitLive /\ [][NextLive]_vars /\ Fairness

\* The clients only run x = 0 and x = x + 1.
InitCounter == InitWith(MaxCounterMsgs, {"x = 0", "x = x + 1"})

SpecCounter == InitCounter /\ [][Next]_vars

\* The clients assign x, read it back and compute with it.
InitNames == InitWith(MaxNamesMsgs, {"x = 5", "x = 0", "x", "x + 1"})

NextCode ==
    \/ \E c \in Conns : client_send_code(c)
    \/ \E c \in Conns : client_close(c)
    \/ \E c \in Conns, s \in SessionIds : connect_accept(c, s)
    \/ \E c \in Conns : connect(c)
    \/ \E c \in Conns : recv_disconnect(c)
    \/ \E c \in Conns : recv_run_code(c)
    \/ \E c \in Conns : execute(c)
    \/ \E c \in Conns : execute_enter(c)
    \/ \E c \in Conns : execute_stmt(c)
    \/ \E c \in Conns : execute_fig(c)
    \/ \E c \in Conns : execute_except(c)
    \/ \E c \in Conns : execute_except_write(c)
    \/ \E c \in Conns : execute_exit(c)
    \/ \E c \in Conns : execute_return(c)
    \/ \E c \in Conns : handle_output(c)

SpecNames == InitNames /\ [][NextCode]_vars

\* The clients draw a plot, or set a title that savefig cannot render.
InitPlot == InitWith(MaxPlotMsgs, {"plt.plot([1])", "plt.title('$'); 1"})

SpecPlot == InitPlot /\ [][NextCode]_vars

\* The clients run code that raises: in ast.parse, in exec, in eval.
InitFault ==
    InitWith(MaxFaultMsgs, {"def (", "raise SystemExit", "x = 5; 1/0", "x"})

SpecFault == InitFault /\ [][NextCode]_vars

\* The clients print, or send code that does not parse.
InitPrint == InitWith(MaxPrintMsgs, {"print('a')", "def ("})

SpecPrint == InitPrint /\ [][NextCode]_vars

\* The clients print and then plot, or send code that does not parse.
InitOrder == InitWith(MaxOrderMsgs, {"print('a'); plt.plot([1])", "def ("})

SpecOrder == InitOrder /\ [][NextCode]_vars

\* The clients run code whose last statement is an expression with a
\* value, an expression without one, an assignment, the empty code, and
\* code that does not parse.
InitDisplay ==
    InitWith(MaxDisplayMsgs,
             {"x = 5; x", "x = 5", "print('a')", "", "def ("})

\* the clients run code and stay connected
NextRun ==
    \/ \E c \in Conns : client_send_code(c)
    \/ \E c \in Conns, s \in SessionIds : connect_accept(c, s)
    \/ \E c \in Conns : connect(c)
    \/ \E c \in Conns : recv_run_code(c)
    \/ \E c \in Conns : execute(c)
    \/ \E c \in Conns : execute_enter(c)
    \/ \E c \in Conns : execute_stmt(c)
    \/ \E c \in Conns : execute_fig(c)
    \/ \E c \in Conns : execute_except(c)
    \/ \E c \in Conns : execute_except_write(c)
    \/ \E c \in Conns : execute_exit(c)
    \/ \E c \in Conns : execute_return(c)
    \/ \E c \in Conns : handle_output(c)

SpecDisplay == InitDisplay /\ [][NextRun]_vars

\* ---------------------------------------------------------------- claims
Running(c) == c \in Busy

\* C1: no two executions against the same session id are in progress at
\* the same time, whatever connections their requests arrived on.
C1_Serialized ==
    \A c, d \in Conns :
        (c # d /\ Running(c) /\ Running(d)) => session_id[c] # session_id[d]

Count(seq, v) == Cardinality({i \in DOMAIN seq : seq[i] = v})

\* C2: once x = 0 and then two x = x + 1 have run to completion on one
\* namespace, x is 0 + 2: no increment is lost, none is applied twice.
C2_NoLostUpdate ==
    \A n \in Conns :
        ( /\ Len(counter_ops[n]) = 5
          /\ counter_ops[n][1] = "set"
          /\ Count(counter_ops[n], "load") = 2
          /\ Count(counter_ops[n], "store") = 2 )
        => locals[n]["x"] = 0 + 2

\* C3: while the execution a connection started is still running in the
\* pool, the connection can read the get_completions that has arrived
\* behind the run_code.
C3_ReadLoopNotBlocked ==
    \A c \in Conns :
        ( /\ Running(c)
          /\ inbox[c] # << >>
          /\ Head(inbox[c]).type = "get_completions" )
        => ENABLED recv_get_completions(c)

\* the execution connection c awaits is in a statement that never returns
Hung(c) == task[c].pc = "stmt" /\ Body(task[c].code)[task[c].ip] = "loop"

Answered(d, r) ==
    \E i \in DOMAIN outbox[d] :
        outbox[d][i].type = "completions" /\ outbox[d][i].request_id = r

\* a get_completions with request id r is the next message of connection
\* d, which is not itself waiting for a snippet that never returns
Unread(d, r) ==
    /\ pc[d] \in {"accepted", "recv", "exec"}
    /\ pc[d] = "exec" => task[d].code # "while True: pass"
    /\ inbox[d] # << >>
    /\ Head(inbox[d]).type = "get_completions"
    /\ Head(inbox[d]).request_id = r

\* C4: while an execution of one session never returns, a get_completions
\* that has arrived on a connection of another session is answered, unless
\* its client goes away first.  The request ids count the requests of all
\* clients: the run_code of the hung execution has taken the first.
C4_OthersNotStalled ==
    \A d \in Conns, r \in 2..MaxMsgsLive :
        ( /\ \E c \in Conns : Hung(c) /\ session_id[c] # session_id[d]
          /\ Unread(d, r) )
        ~> (Answered(d, r) \/ chan[d] # "open")

\* C4 happens: one session is stuck in its loop and a connection of another
\* session has its completions.
C4_Witness ==
    \E c, d \in Conns :
        /\ Hung(c)
        /\ session_id[c] # session_id[d]
        /\ chan[d] = "open"
        /\ \E r \in 1..MaxMsgsLive : Answered(d, r)

\* C5: an execution dispatched while its session id was registered never
\* returns the session-expired fragment.
C5_DispatchedRunsToCompletion ==
    \A c \in Conns :
        (task[c].pc = "returned" /\ task[c].registered)
        => task[c].out # << [k |-> "expired"] >>

\* C6: once the message loop of a connection has ended, the registry holds
\* no entry created by that connection.
C6_ClosedRemovesEntry ==
    \A c \in Conns :
        pc[c] = "closed"
        => ~(Registered(session_id[c]) /\ sessions[session_id[c]].websocket = c)

HasError(out) == \E i \in DOMAIN out : out[i].k = "err"

\* C10: the fragment of an execution that raised is the error trace alone.
C10_ErrorAlone ==
    \A c \in Conns :
        (task[c].pc = "returned" /\ HasError(task[c].out))
        => task[c].out = << [k |-> "err"] >>

\* the step in which connection c reads a message of the given type
Reads(c, type) ==
    /\ pc[c] = "recv"
    /\ inbox[c] # << >>
    /\ Head(inbox[c]).type = type
    /\ inbox'[c] = Tail(inbox[c])

\* C7: handling run_code or get_completions for a session id that is not
\* registered leaves the registry as it is; run_code returns the
\* session-expired fragment, get_completions the empty list, and the
\* connection, if its client is still there, goes on reading.
C7_NoImplicitCreate ==
    [][\A c \in Conns :
        /\ ( /\ task[c].pc = "queued"
             /\ task'[c].pc # "queued"
             /\ ~Registered(session_id[c]) )
           => /\ sessions' = sessions
              /\ task'[c].pc = "returned"
              /\ task'[c].out = << [k |-> "expired"] >>
        /\ ( /\ pc[c] = "exec"
             /\ pc'[c] # "exec"
             /\ task[c].out = << [k |-> "expired"] >>
             /\ chan[c] = "open" )
           => /\ sessions' = sessions
              /\ pc'[c] = "recv"
              /\ outbox'[c] = Append(outbox[c],
                                     [type |-> "output",
                                      cell_id |-> task[c].cell_id,
                                      output |-> << [k |-> "expired"] >>])
        /\ ( /\ Reads(c, "get_completions")
             /\ ~Registered(session_id[c])
             /\ chan[c] = "open" )
           => /\ sessions' = sessions
              /\ pc'[c] = "recv"
              /\ outbox'[c] = Append(outbox[c],
                                     [type |-> "completions",
                                      request_id |-> Head(inbox[c]).request_id,
                                      completions |-> {}])
    ]_vars

\* C7 happens: a connection whose session id is not registered has got the
\* session-expired fragment and is reading again.
C7_Witness ==
    \E c \in Conns :
        /\ pc[c] = "recv"
        /\ ~Registered(session_id[c])
        /\ outbox[c] # << >>
        /\ outbox[c][Len(outbox[c])].type = "output"
        /\ outbox[c][Len(outbox[c])].output = << [k |-> "expired"] >>

\* C8: a get_completions handled while enable_autocomplete is false is
\* answered with the empty list and the provider is not called, whenever
\* the flag was set and whichever session asks.
C8_FlagGatesCompletions ==
    [][\A c \in Conns :
        ( /\ Reads(c, "get_completions")
          /\ ~global_settings.enable_autocomplete )
        => /\ provider_calls' = provider_calls
           /\ chan[c] = "open" =>
                 outbox'[c] = Append(outbox[c],
                                     [type |-> "completions",
                                      request_id |-> Head(inbox[c]).request_id,
                                      completions |-> {}])
    ]_vars

\* C8 happens: with the flag switched off, a registered session has been
\* answered with the empty list, the provider never called.
C8_Witness ==
    \E c \in Conns :
        /\ ~global_settings.enable_autocomplete
        /\ Registered(session_id[c])
        /\ provider_calls = 0
        /\ outbox[c] # << >>
        /\ outbox[c][Len(outbox[c])].type = "completions"
        /\ outbox[c][Len(outbox[c])].completions = {}

\* C9: for a sender whose own client is connected: apply_design delivers exactly one design_applied with the html as
\* sent to the channel of the target when that channel is open, and to no
\* other channel; when the target is not registered or its channel is not
\* open, nothing is delivered, nothing is raised and the sender goes on
\* reading.
C9_ApplyDesign ==
    [][\A c \in Conns :
        (Reads(c, "apply_design") /\ chan[c] = "open") =>
            LET t == Head(inbox[c]).session_id
                h == Head(inbox[c]).html
            IN IF Registered(t) /\ chan[sessions[t].websocket] = "open"
               THEN outbox' = [outbox EXCEPT ![sessions[t].websocket] =
                                  Append(@, [type |-> "design_applied",
                                             html |-> h])]
               ELSE outbox' = outbox /\ pc'[c] = "recv"
    ]_vars

\* the value of the last `x = ...` in a history of stores made by the
\* snippets x = 0 and x = 5
LastAssigned(ops) ==
    IF ops[Len(ops)] = "set5" THEN 5 ELSE 0

\* the thread of connection c completes statement st in this step
Evaluates(c, st) ==
    /\ task[c].pc = "stmt"
    /\ Body(task[c].code)[task[c].ip] = st
    /\ << task'[c].pc, task'[c].ip >> # << task[c].pc, task[c].ip >>

\* C11: once an execution has assigned x in the namespace of a registered
\* session, every execution on that namespace that evaluates x or x + 1
\* does not raise and writes the value last assigned, or that value plus
\* one, to its fragment.
C11_NamePersists ==
    [][\A c \in Conns :
        LET n == task[c].ns IN
        /\ (Evaluates(c, "name_x") /\ counter_ops[n] # << >>)
           => /\ task'[c].pc = "fig"
              /\ buf'[c] = Append(buf[c], [k |-> "val",
                                           v |-> LastAssigned(counter_ops[n])])
        /\ (Evaluates(c, "x_plus_1") /\ counter_ops[n] # << >>)
           => /\ task'[c].pc = "fig"
              /\ buf'[c] = Append(buf[c], [k |-> "val",
                                           v |-> LastAssigned(counter_ops[n]) + 1])
    ]_vars

\* an output message whose fragment shows the value v has been delivered
\* to connection c
Shown(c, v) ==
    \E i \in DOMAIN outbox[c] :
        /\ outbox[c][i].type = "output"
        /\ \E j \in DOMAIN outbox[c][i].output :
               outbox[c][i].output[j] = [k |-> "val", v |-> v]

\* C11 happens: after x = 5, x + 1 has been answered with 6.
C11_Witness ==
    \E c \in Conns :
        /\ Registered(session_id[c])
        /\ counter_ops[sessions[session_id[c]].locals] = << "set5" >>
        /\ Shown(c, 6)

\* the connections whose requests run in the session of connection c
SameSession(c) == {d \in Conns : session_id[d] = session_id[c]}

\* what a token of a fragment shows was made by the connections in ds:
\* the text was printed by one of them, the image holds their drawings
MadeBy(tok, ds) ==
    /\ tok.k = "out" => tok.by \in ds
    /\ tok.k = "img" => tok.axes \subseteq ds

\* C12: the namespace of a session holds the two seeded handles and the
\* names its own executions have bound, and a fragment returned to a
\* session shows nothing that an execution of another session printed or
\* drew.
C12_SessionsIsolated ==
    /\ \A n \in Conns :
          DOMAIN locals[n] \subseteq
              DOMAIN SeedLocals \cup (IF counter_ops[n] # << >> THEN {"x"} ELSE {})
    /\ \A c \in Conns :
          task[c].pc = "returned" =>
              \A i \in DOMAIN task[c].out : MadeBy(task[c].out[i], SameSession(c))

\* the image tags of a fragment
Images(out) == {i \in DOMAIN out : out[i].k = "img"}

\* C13: the fragment of every execution of the snippet that only draws a
\* plot, in a registered session, holds exactly one image tag, whatever ran
\* before it.
C13_OneImagePerRun ==
    \A c \in Conns :
        ( /\ task[c].pc = "returned"
          /\ task[c].code = "plt.plot([1])"
          /\ task[c].out # SessionExpired )
        => Cardinality(Images(task[c].out)) = 1

\* snippets that raise whenever they run
Faults(code) == code \in {"def (", "raise SystemExit", "x = 5; 1/0"}

\* C14: when the execution a connection awaits has run a snippet that
\* raises, in a registered session, and the client is still there, the
\* connection gets the output message with the error trace and goes on
\* reading.
C14_FaultBecomesFragment ==
    [][\A c \in Conns :
        ( /\ pc[c] = "exec"
          /\ pc'[c] # "exec"
          /\ Faults(task[c].code)
          /\ task[c].out # SessionExpired
          /\ chan[c] = "open" )
        => /\ pc'[c] = "recv"
           /\ chan'[c] = "open"
           /\ HasError(task[c].out)
           /\ outbox'[c] = Append(outbox[c], [type |-> "output",
                                              cell_id |-> task[c].cell_id,
                                              output |-> task[c].out])
    ]_vars

\* this step delivers exactly one message to connection c, and it is m
Delivers(c, m) == outbox'[c] = Append(outbox[c], m)

\* the replies delivered to connection c
Replies(box) ==
    {i \in DOMAIN box : box[i].type \in {"output", "completions"}}

\* C15: the handler of a run_code read on a connection whose client is
\* still there ends with exactly one output message on that connection,
\* carrying the cell_id of the request; the handler of a get_completions
\* with exactly one completions message carrying its request_id; and no
\* other step delivers a reply.
C15_OneReplyPerRequest ==
    [][\A c \in Conns :
        /\ (pc[c] = "exec" /\ pc'[c] # "exec" /\ chan[c] = "open")
           => \E out \in {task[c].out} :
                 Delivers(c, [type |-> "output", cell_id |-> task[c].cell_id,
                              output |-> out])
        /\ (Reads(c, "get_completions") /\ chan[c] = "open")
           => \E cs \in SUBSET {"plt", "pd", "x"} :
                 Delivers(c, [type |-> "completions",
                              request_id |-> Head(inbox[c]).request_id,
                              completions |-> cs])
        /\ ~(pc[c] = "exec" /\ pc'[c] # "exec") /\ ~Reads(c, "get_completions")
           => Replies(outbox'[c]) = Replies(outbox[c])
    ]_vars

\* the step in which connection c completes NotebookServer.connect
Opens(c) == pc[c] = "accepted" /\ pc'[c] = "recv"

\* C16: a channel opened for a session id after the endpoint of an earlier
\* channel of that id has ended gets a namespace of its own, holding the
\* two seeded handles only.
C16_ReopenIsFresh ==
    [][\A c \in Conns :
        ( /\ Opens(c)
          /\ \E d \in Conns \ {c} :
                session_id[d] = session_id[c] /\ pc[d] = "closed" )
        => /\ Registered(session_id[c])'
           /\ sessions'[session_id[c]].locals = c
           /\ locals'[c] = SeedLocals
    ]_vars

\* C17: NotebookServer.connect for an id that is in the registry leaves the
\* registry and every namespace as they are; for an id that is not, it adds
\* one entry for that id, whose namespace holds exactly plt and pd, and
\* leaves the other entries alone.
C17_ConnectIdempotent ==
    [][\A c \in Conns :
        Opens(c) =>
            LET sid == session_id[c] IN
            IF sid \in DOMAIN sessions
            THEN sessions' = sessions /\ locals' = locals
            ELSE /\ DOMAIN sessions' = DOMAIN sessions \cup {sid}
                 /\ \A s \in DOMAIN sessions : sessions'[s] = sessions[s]
                 /\ DOMAIN locals'[sessions'[sid].locals] = {"plt", "pd"}
                 /\ \A n \in Conns :
                       (\E s \in DOMAIN sessions : sessions[s].locals = n)
                       => sessions'[sid].locals # n
    ]_vars

\* C17 happens: the second connection has opened the session the first
\* one registered, one entry is there, and it has read the x the first
\* one assigned.
C17_Witness ==
    /\ session_id["c2"] = "s1"
    /\ DOMAIN sessions = {"s1"}
    /\ sessions["s1"].locals = "c1"
    /\ counter_ops["c1"] = << "set5" >>
    /\ Shown("c2", 5)

\* the thread of connection c raises in this step, or runs a step of its
\* `except Exception` block
Handles(c) ==
    \/ task[c].pc = "stmt" /\ task'[c].pc = "except"
    \/ task[c].pc = "except" /\ task'[c].pc = "except_write"
    \/ task[c].pc = "except_write" /\ task'[c].pc = "exit"

\* C18: where the only assignment is the one of x = 5; 1/0, which raises
\* after it: raising and handling the exception change no namespace, and
\* an execution that evaluates x on a namespace in which a snippet
\* assigned before it raised writes 5 to its fragment.
C18_NoRollback ==
    [][\A c \in Conns :
        /\ Handles(c) => locals' = locals
        /\ ( /\ Evaluates(c, "name_x")
             /\ snippets \cap {"x = 5", "x = 0", "x = x + 1"} = {}
             /\ counter_ops[task[c].ns] # << >> )
           => /\ task'[c].pc = "fig"
              /\ buf'[c] = Append(buf[c], [k |-> "val", v |-> 5])
    ]_vars

\* C18 happens: a connection has got the error trace of x = 5; 1/0 and
\* then the 5 of x.
C18_Witness ==
    \E c \in Conns :
        /\ "x = 5" \notin snippets
        /\ Len(outbox[c]) = 2
        /\ HasError(outbox[c][1].output)
        /\ outbox[c][2].output = << [k |-> "val", v |-> 5] >>

\* C19: the figure is blank when an execution enters its try block, and an
\* image in the fragment an execution returns holds what that execution
\* drew and nothing else.
C19_FigureBlankAtStart ==
    \A c \in Conns :
        /\ task[c].pc = "enter" => figure.axes = {}
        /\ task[c].pc = "returned" =>
               \A i \in Images(task[c].out) : task[c].out[i].axes = {c}

\* C20: whenever no execution is in progress in any thread of the pool,
\* sys.stdout is the stream it was before the first execution.
C20_StdoutRestored ==
    (\A c \in Conns : ~Running(c)) => sys_stdout = Orig

\* the text in a fragment that executions printed
Stdout(out) == SelectSeq(out, LAMBDA tok : tok.k = "out")

\* C21: the standard-output part of the fragment an execution returns is
\* the text that execution printed: one line for print('a'), nothing for
\* code that prints nothing.
C21_StdoutIsOwn ==
    \A c \in Conns :
        (task[c].pc = "returned" /\ task[c].out # SessionExpired)
        => Stdout(task[c].out) =
               IF task[c].code = "print('a')"
               THEN << [k |-> "out", by |-> c] >>
               ELSE << >>

\* C22: while a connection is in its message loop and its client has not
\* closed, its session id is in the registry, and the execution it awaits
\* does not return the session-expired fragment.
C22_OpenIsRegistered ==
    \A c \in Conns :
        (pc[c] \in {"recv", "exec"} /\ chan[c] = "open")
        => /\ Registered(session_id[c])
           /\ task[c].pc = "returned" => task[c].out # SessionExpired

\* C23: the websocket of every registry entry belongs to a connection
\* whose endpoint is still running, and an apply_design that is about to
\* be handled for a registered target finds the transport of the target's
\* websocket open.
C23_RegistryChannelOpen ==
    /\ \A s \in DOMAIN sessions : pc[sessions[s].websocket] # "closed"
    /\ \A c \in Conns :
          ( /\ pc[c] = "recv"
            /\ inbox[c] # << >>
            /\ Head(inbox[c]).type = "apply_design"
            /\ Registered(Head(inbox[c]).session_id) )
          => chan[sessions[Head(inbox[c]).session_id].websocket] = "open"

\* the correlation token of a reply
Token(m) == IF m.type = "output" THEN m.cell_id ELSE m.request_id

\* the replies in a box are in the order of their requests: the tokens
\* count the requests of the clients
InRequestOrder(box) ==
    \A i, j \in Replies(box) : i < j => Token(box[i]) < Token(box[j])

\* C24: a connection reads its next message only when no execution it
\* started is pending, and the replies delivered to it are in the order of
\* their requests.
C24_RepliesInOrder ==
    [][\A c \in Conns :
        /\ Len(inbox'[c]) < Len(inbox[c]) => task[c].pc = "none"
        /\ LET box == outbox'[c] IN InRequestOrder(box)
    ]_vars

\* C24 happens: a connection has got the output of its run_code and then
\* the completions it asked for after it.
C24_Witness ==
    \E c \in Conns :
        /\ Len(outbox[c]) = 2
        /\ outbox[c][1].type = "output"
        /\ outbox[c][2].type = "completions"
        /\ outbox[c][1].cell_id < outbox[c][2].request_id

\* where a token belongs in a fragment: text captured from sys.stdout,
\* the rendering of the trailing value, the image tag
Rank(tok) ==
    CASE tok.k \in {"out", "log"}  -> 1
      [] tok.k \in {"repr", "val"} -> 2
      [] OTHER                     -> 3

\* C25: in the fragment of an execution that did not raise, all captured
\* standard-output text comes before the rendering of the trailing value,
\* and that before the image tag.
C25_FragmentOrder ==
    \A c \in Conns :
        ( /\ task[c].pc = "returned"
          /\ ~task[c].exc
          /\ ~HasError(task[c].out)
          /\ task[c].out # SessionExpired )
        => \A i, j \in DOMAIN task[c].out :
               i < j => Rank(task[c].out[i]) <= Rank(task[c].out[j])

\* the renderings of values in a buffer
Values(b) == Cardinality({i \in DOMAIN b : b[i].k \in {"val", "repr"}})

\* bare expressions whose value is not None
ValueExprs == {"name_x", "x_plus_1", "plot", "title_bad", "one"}

\* statement i of the code is its last and a bare expression with a value
Trailing(code, i) ==
    /\ i = Len(Body(code))
    /\ i > 0
    /\ Body(code)[i] \in ValueExprs

\* C26: a statement that completes writes the rendering of its value to
\* the fragment if and only if it is the last statement of the code and a
\* bare expression whose value is not None; the statements run one after
\* the other on the namespace the execution started with, so that the x of
\* x = 5; x is 5; and when the statements are done, the fragment holds one
\* rendering if the code ends in such an expression and none if it does
\* not or is empty.
C26_AutoDisplay ==
    [][\A c \in Conns :
        LET t == task[c] IN
        /\ ( /\ t.pc = "stmt"
             /\ task'[c].pc \in {"stmt", "fig"}
             /\ << task'[c].pc, task'[c].ip >> # << t.pc, t.ip >> )
           => /\ Values(buf'[c]) =
                     Values(buf[c]) + (IF Trailing(t.code, t.ip) THEN 1 ELSE 0)
              /\ task'[c].ns = t.ns
              /\ task'[c].pc = "stmt" => task'[c].ip = t.ip + 1
              /\ task'[c].pc = "fig" => t.ip = Len(Body(t.code))
        /\ (Evaluates(c, "name_x") /\ t.code = "x = 5; x")
           => buf'[c] = Append(buf[c], [k |-> "val", v |-> 5])
        /\ (t.pc = "fig" /\ ParseOk(t.code))
           => Values(buf[c]) =
                  IF Trailing(t.code, Len(Body(t.code))) THEN 1 ELSE 0
    ]_vars

\* C26 happens: the first reply to a connection is the 5 of x = 5; x.
C26_Witness ==
    \E c \in Conns :
        /\ "x = 5; x" \in snippets
        /\ outbox[c] # << >>
        /\ outbox[c][1].output = << [k |-> "val", v |-> 5] >>
====
